---- MODULE Spec2Model ----
(***************************************************************************)
(* Request-routing state machine of the ServiceNow consultant: router,     *)
(* three specialist nodes, tool node, handoff requests, cycle guard and    *)
(* the permission gate of the implementation specialist.                   *)
(*                                                                         *)
(* Message contents are sequences of strings: a user message is the        *)
(* sequence of its characters, an assistant message the sequence of its    *)
(* lines.  `messages` holds the last TailLen entries of state["messages"]; *)
(* the nodes and the routing functions of the graph read only              *)
(* messages[-3:] and messages[-1], the router reads the user message.      *)
(***************************************************************************)
EXTENDS Integers, Sequences, FiniteSets, TLC

\* ------------------------------------------------------------------ bounds
TailLen == 4          \* entries of state["messages"] kept (>= gate window)
MaxHistory == 6       \* records in a handoff history given to the guard
MaxItems == 2         \* entries of one list of an AgentContext

\* -------------------------------------------------------- program constants
None == "None"
Agents == {"consultant", "solution_architect", "implementation"}
max_steps == 10
lookback == 5
same_path_threshold == 3
gate_window == 3

\* Tools bound to each specialist's model.  consult_public_docs stands for
\* every bound tool that is neither check_live_instance nor request_handoff
\* (consult_user_context, save_learned_preference, check_table_schema, ...):
\* the graph treats them alike.
BoundTools(a) ==
    IF a = "implementation"
    THEN {"consult_public_docs", "check_live_instance", "request_handoff"}
    ELSE {"consult_public_docs", "request_handoff"}

\* Targets of the conditional edges leaving a specialist node.
EdgeTable(a) == {"tools", "end"} \cup (Agents \ {a})

confirmation_keywords ==
    { <<"y","e","s">>,
      <<"p","l","e","a","s","e"," ","c","h","e","c","k">>,
      <<"g","o"," ","a","h","e","a","d">>,
      <<"c","o","n","n","e","c","t">>,
      <<"s","u","r","e">>,
      <<"o","k","a","y">>,
      <<"o","k">>,
      <<"p","r","o","c","e","e","d">>,
      <<"d","o"," ","i","t">>,
      <<"c","h","e","c","k"," ","i","t">>,
      <<"c","h","e","c","k"," ","t","h","e"," ","i","n","s","t","a","n","c","e">>,
      <<"c","o","n","n","e","c","t"," ","t","o"," ","i","n","s","t","a","n","c","e">> }

\* User inputs of a turn: "", "No", "OK" (upper case on purpose).
UserInputs == { <<>>, <<"N","o">>, <<"O","K">> }

\* ------------------------------------------------------------------- text
\* str.lower() on one character.
lower_char(c) ==
    CASE c = "A" -> "a"
      [] c = "B" -> "b"
      [] c = "C" -> "c"
      [] c = "D" -> "d"
      [] c = "E" -> "e"
      [] c = "F" -> "f"
      [] c = "G" -> "g"
      [] c = "H" -> "h"
      [] c = "I" -> "i"
      [] c = "J" -> "j"
      [] c = "K" -> "k"
      [] c = "L" -> "l"
      [] c = "M" -> "m"
      [] c = "N" -> "n"
      [] c = "O" -> "o"
      [] c = "P" -> "p"
      [] c = "Q" -> "q"
      [] c = "R" -> "r"
      [] c = "S" -> "s"
      [] c = "T" -> "t"
      [] c = "U" -> "u"
      [] c = "V" -> "v"
      [] c = "W" -> "w"
      [] c = "X" -> "x"
      [] c = "Y" -> "y"
      [] c = "Z" -> "z"
      [] OTHER -> c

lower(s) == [i \in 1..Len(s) |-> lower_char(s[i])]

\* `keyword in content`: substring test.
contains(content, keyword) ==
    \E i \in 0..(Len(content) - Len(keyword)) :
        \A j \in 1..Len(keyword) : content[i + j] = keyword[j]

has_keyword(content) ==
    \E keyword \in confirmation_keywords : contains(lower(content), keyword)

\* --------------------------------------------------------------- messages
HumanMessage(content) == [type |-> "human", content |-> content, tool_calls |-> {}]
AIMessage(content, tool_calls) == [type |-> "ai", content |-> content, tool_calls |-> tool_calls]
ToolMessage == [type |-> "tool", content |-> <<"tool output">>, tool_calls |-> {}]

circular_message == AIMessage(<<"I've detected a circular handoff pattern.">>, {})
permission_message == AIMessage(<<"I need your permission to connect to your live ServiceNow instance.">>, {})
error_message == AIMessage(<<"I encountered an error">>, {})

LastN(s, n) == IF Len(s) <= n THEN s ELSE SubSeq(s, Len(s) - n + 1, Len(s))

\* add_messages reducer, on the kept tail.
add_messages(ms, new) == LastN(ms \o new, TailLen)

\* ------------------------------------------------------------ cycle guard
\* A handoff record is <<from_agent, to_agent>>; reason, timestamp and
\* context_summary are not read by the guard.
\* same_path_count with `or` in place of `and`
same_path_count_or(recent_handoffs, from_agent, to_agent) ==
    Cardinality({i \in 1..Len(recent_handoffs) :
                    \/ recent_handoffs[i][1] = from_agent
                    \/ recent_handoffs[i][2] = to_agent})

same_path_count(recent_handoffs, from_agent, to_agent) ==
    Cardinality({i \in 1..Len(recent_handoffs) :
                    recent_handoffs[i] = <<from_agent, to_agent>>})

\* ping_pong with the two legs compared in the opposite order
ping_pong_swapped(recent_handoffs, from_agent, to_agent) ==
    /\ Len(recent_handoffs) >= 2
    /\ LET last_two == LastN(recent_handoffs, 2)
       IN  /\ last_two[1] = <<from_agent, to_agent>>
           /\ last_two[2] = <<to_agent, from_agent>>

ping_pong(recent_handoffs, from_agent, to_agent) ==
    /\ Len(recent_handoffs) >= 2
    /\ LET last_two == LastN(recent_handoffs, 2)
       IN  /\ last_two[1] = <<to_agent, from_agent>>
           /\ last_two[2] = <<from_agent, to_agent>>

\* detect_circular_handoff that flags the second repeat of a path
detect_circular_handoff_twice(history, from_agent, to_agent, lb) ==
    IF Len(history) < 2
    THEN FALSE
    ELSE LET recent_handoffs == LastN(history, lb)
         IN  \/ ping_pong(recent_handoffs, from_agent, to_agent)
             \/ same_path_count(recent_handoffs, from_agent, to_agent) >= 2

detect_circular_handoff(history, from_agent, to_agent, lb) ==
    IF Len(history) < 2
    THEN FALSE
    ELSE LET recent_handoffs == LastN(history, lb)
         IN  \/ ping_pong(recent_handoffs, from_agent, to_agent)
             \/ same_path_count(recent_handoffs, from_agent, to_agent) >= same_path_threshold

\* ------------------------------------------------------------ step limits
\* has_exceeded_step_limit with > in place of >=
has_exceeded_step_limit_gt(step_counts, agent_name, ms) == step_counts[agent_name] > ms

has_exceeded_step_limit(step_counts, agent_name, ms) == step_counts[agent_name] >= ms

\* increment_agent_steps that counts the step for every agent
increment_agent_steps_all(step_counts, agent_name) ==
    [a \in DOMAIN step_counts |-> step_counts[a] + 1]

increment_agent_steps(step_counts, agent_name) ==
    [step_counts EXCEPT ![agent_name] = @ + 1]

EmptyContext == [findings |-> <<>>, recommendations |-> <<>>,
                 constraints |-> <<>>, open_questions |-> <<>>]

\* Lines of the step-limit summary ("\n".join(summary_parts)).  The first
\* two lines stand for the f-string header naming the agent and the limit.
limit_summary(context, agent_name) ==
    <<agent_name, "has reached its step limit", "Here's what was discovered:">>
    \o (IF context.findings # <<>> THEN <<"Findings:">> \o context.findings ELSE <<>>)
    \o (IF context.recommendations # <<>>
        THEN <<"Recommendations:">> \o context.recommendations ELSE <<>>)
    \o (IF context.open_questions # <<>>
        THEN <<"Remaining questions:">> \o context.open_questions ELSE <<>>)

check_agent_limits(st, agent_name, ms) ==
    IF has_exceeded_step_limit(st.agent_step_counts, agent_name, ms)
    THEN [exceeded |-> TRUE,
          message |-> limit_summary(st.agent_contexts[agent_name], agent_name)]
    ELSE [exceeded |-> FALSE, message |-> <<>>]

update_agent_context(contexts, agent_name, findings, recommendations) ==
    [contexts EXCEPT ![agent_name] =
        [@ EXCEPT !.findings = @ \o findings,
                  !.recommendations = @ \o recommendations]]

\* --------------------------------------------------------- permission gate
\* user_confirmed without the keyword test
user_confirmed_any_reply(ms) ==
    LET recent == LastN(ms, gate_window)
    IN  \E i \in 1..Len(recent) :
            /\ recent[i].type = "human"
            /\ recent[i].content # <<>>

\* user_confirmed scanning messages[-2:]
user_confirmed_last_two(ms) ==
    LET recent == LastN(ms, 2)
    IN  \E i \in 1..Len(recent) :
            /\ recent[i].type = "human"
            /\ recent[i].content # <<>>
            /\ has_keyword(recent[i].content)

\* for msg in reversed(messages[-3:]): HumanMessage with a keyword
user_confirmed(ms) ==
    LET recent == LastN(ms, gate_window)
    IN  \E i \in 1..Len(recent) :
            /\ recent[i].type = "human"
            /\ recent[i].content # <<>>
            /\ has_keyword(recent[i].content)

\* ------------------------------------------------------------------ state
VARIABLES
    pc,                 \* node the graph runs next; "end" is END, "error" a raised exception
    user_message,       \* `message` argument of invoke
    messages,
    current_agent,
    previous_agent,
    handoff_history,
    agent_contexts,
    handoff_requested,
    handoff_target,
    handoff_reason,
    handoff_context_summary,
    live_instance_permission_granted,
    agent_step_counts,
    model_calls,        \* observer: model invocations of each specialist in the turn
    tools_executed,     \* observer: tools run by the tool node in the turn
    guard_call,         \* last call of detect_circular_handoff by the guard driver
    semantic_cache,     \* rows of the semantic_cache table, in rowid order
    cache_call,         \* last call of check_cache, store_cache or invoke, and its result
    routing,            \* outcome of orchestrator_node, until the routed node has run
    clock,              \* CURRENT_TIMESTAMP of the database (UTC), in quarters of a day
    utc_offset,         \* local time of the process minus UTC, in quarters of a day
    conversation_history \* roles of the messages saved for the conversation, in order

vars == <<pc, user_message, messages, current_agent, previous_agent,
          handoff_history, agent_contexts, handoff_requested, handoff_target,
          handoff_reason, handoff_context_summary,
          live_instance_permission_granted, agent_step_counts,
          model_calls, tools_executed, guard_call, semantic_cache, cache_call,
          routing, clock, utc_offset, conversation_history>>

\* The MultiAgentState dict the nodes receive.
State ==
    [messages |-> messages,
     current_agent |-> current_agent,
     previous_agent |-> previous_agent,
     handoff_history |-> handoff_history,
     agent_contexts |-> agent_contexts,
     handoff_requested |-> handoff_requested,
     handoff_target |-> handoff_target,
     handoff_reason |-> handoff_reason,
     handoff_context_summary |-> handoff_context_summary,
     live_instance_permission_granted |-> live_instance_permission_granted,
     agent_step_counts |-> agent_step_counts]

NoCall == [called |-> FALSE, from_agent |-> None, to_agent |-> None, result |-> FALSE]

\* no function of semantic_cache.py and no invoke has been called yet
NoCacheCall ==
    [op |-> "none", user_id |-> None, query |-> <<>>, response |-> None,
     hit |-> FALSE, similarity |-> 0, response_text |-> None,
     cache_failed |-> FALSE, raised |-> FALSE, repeat |-> FALSE]

\* create_initial_state, then state["messages"] = [HumanMessage(message)]
create_initial_state(message) ==
    [messages |-> <<HumanMessage(message)>>,
     current_agent |-> "orchestrator",
     previous_agent |-> None,
     handoff_history |-> <<>>,
     agent_contexts |-> [a \in Agents |-> EmptyContext],
     handoff_requested |-> FALSE,
     handoff_target |-> None,
     handoff_reason |-> None,
     handoff_context_summary |-> None,
     live_instance_permission_granted |-> FALSE,
     agent_step_counts |-> [a \in Agents |-> 0]]

\* ------------------------------------------------------------ model replies
NoReply == [raises |-> FALSE, tool_calls |-> {}, target |-> None,
            findings |-> <<>>, recommendations |-> <<>>]
Raise == [NoReply EXCEPT !.raises = TRUE]

\* Tool calls of one reply: none, or one call of a bound tool.
ReplyToolCalls(a) == {{}} \cup {{t} : t \in BoundTools(a)}

\* What agent.ainvoke(messages) can give: an exception or a reply; a
\* request_handoff call names any of the three agents (the Literal of its
\* target_agent argument).
Replies(a) ==
    {Raise} \cup
    { [NoReply EXCEPT !.tool_calls = x[1], !.target = x[2]] :
        x \in { y \in ReplyToolCalls(a) \X (Agents \cup {None}) :
                  (y[2] # None) <=> ("request_handoff" \in y[1]) } }

\* ------------------------------------------------------------------ nodes
\* A node gives back the state after its return dict is merged (st) and
\* whether it reached agent.ainvoke (invoked).
\* try-branch of a specialist node: the model answered with reply r.
agent_reply(st, agent_name, r, permission_granted) ==
  [invoked |-> TRUE, st |->
    [st EXCEPT
        !.messages = add_messages(@, <<AIMessage(<<"reply">>, r.tool_calls)>>),
        !.current_agent = agent_name,
        !.agent_step_counts = increment_agent_steps(@, agent_name),
        !.agent_contexts =
            IF r.findings # <<>> \/ r.recommendations # <<>>
            THEN update_agent_context(@, agent_name, r.findings, r.recommendations)
            ELSE @,
        !.live_instance_permission_granted = permission_granted,
        !.handoff_requested = ("request_handoff" \in r.tool_calls),
        !.handoff_target = IF "request_handoff" \in r.tool_calls THEN r.target ELSE None,
        !.handoff_reason = IF "request_handoff" \in r.tool_calls THEN "reason" ELSE None,
        !.handoff_context_summary =
            IF "request_handoff" \in r.tool_calls THEN "context_summary" ELSE None]]

\* returns that carry only messages, current_agent and agent_step_counts
agent_short_return(st, agent_name, message, invoked) ==
  [invoked |-> invoked, st |->
    [st EXCEPT
        !.messages = add_messages(@, <<message>>),
        !.current_agent = agent_name,
        !.agent_step_counts = increment_agent_steps(@, agent_name)]]

agent_node(st, agent_name, r) ==
    LET limits == check_agent_limits(st, agent_name, max_steps)
    IN  IF limits.exceeded
        THEN agent_short_return(st, agent_name, AIMessage(limits.message, {}), FALSE)
        ELSE IF r.raises
        THEN agent_short_return(st, agent_name, error_message, TRUE)
        ELSE agent_reply(st, agent_name, r, st.live_instance_permission_granted)

consultant_node(st, r) == agent_node(st, "consultant", r)

solution_architect_node(st, r) == agent_node(st, "solution_architect", r)

implementation_node(st, r) ==
    LET agent_name == "implementation"
        limits == check_agent_limits(st, agent_name, max_steps)
        confirmed == user_confirmed(st.messages)
        permission_granted == st.live_instance_permission_granted \/ confirmed
    IN  IF limits.exceeded
        THEN agent_short_return(st, agent_name, AIMessage(limits.message, {}), FALSE)
        ELSE IF ~st.live_instance_permission_granted /\ ~confirmed
        THEN agent_short_return(st, agent_name, permission_message, FALSE)
        ELSE IF r.raises
        THEN agent_short_return(st, agent_name, error_message, TRUE)
        ELSE agent_reply(st, agent_name, r, permission_granted)

node(agent_name, st, r) ==
    CASE agent_name = "consultant" -> consultant_node(st, r)
      [] agent_name = "solution_architect" -> solution_architect_node(st, r)
      [] agent_name = "implementation" -> implementation_node(st, r)

\* ---------------------------------------------------------------- routing
\* agent_should_continue that looks at the tool calls before the handoff
agent_should_continue_tools_first(st) ==
    IF st.messages = <<>>
    THEN [route |-> "end", messages |-> st.messages]
    ELSE IF st.messages[Len(st.messages)].tool_calls # {}
    THEN [route |-> "tools", messages |-> st.messages]
    ELSE IF st.handoff_requested
    THEN [route |-> st.handoff_target, messages |-> st.messages]
    ELSE [route |-> "end", messages |-> st.messages]

agent_should_continue(st) ==
    IF st.messages = <<>>
    THEN [route |-> "end", messages |-> st.messages]
    ELSE IF st.handoff_requested
    THEN IF detect_circular_handoff(st.handoff_history, st.current_agent,
                                    st.handoff_target, lookback)
         THEN [route |-> "end", messages |-> add_messages(st.messages, <<circular_message>>)]
         ELSE [route |-> st.handoff_target, messages |-> st.messages]
    ELSE IF st.messages[Len(st.messages)].tool_calls # {}
    THEN [route |-> "tools", messages |-> st.messages]
    ELSE [route |-> "end", messages |-> st.messages]

orchestrator_should_continue(agent) ==
    IF agent = None \/ agent = "orchestrator" THEN "consultant" ELSE agent

\* route_after_tools that always gives the default of state.get
route_after_tools_default(agent) == "consultant"

route_after_tools(agent) == agent

\* ----------------------------------------------------------------- actions
Apply(st) ==
    /\ messages' = st.messages
    /\ current_agent' = st.current_agent
    /\ previous_agent' = st.previous_agent
    /\ handoff_history' = st.handoff_history
    /\ agent_contexts' = st.agent_contexts
    /\ handoff_requested' = st.handoff_requested
    /\ handoff_target' = st.handoff_target
    /\ handoff_reason' = st.handoff_reason
    /\ handoff_context_summary' = st.handoff_context_summary
    /\ live_instance_permission_granted' = st.live_instance_permission_granted
    /\ agent_step_counts' = st.agent_step_counts

InState(st) ==
    /\ messages = st.messages
    /\ current_agent = st.current_agent
    /\ previous_agent = st.previous_agent
    /\ handoff_history = st.handoff_history
    /\ agent_contexts = st.agent_contexts
    /\ handoff_requested = st.handoff_requested
    /\ handoff_target = st.handoff_target
    /\ handoff_reason = st.handoff_reason
    /\ handoff_context_summary = st.handoff_context_summary
    /\ live_instance_permission_granted = st.live_instance_permission_granted
    /\ agent_step_counts = st.agent_step_counts

Init ==
    /\ user_message \in UserInputs
    /\ pc = "orchestrator"
    /\ InState(create_initial_state(user_message))
    /\ model_calls = [a \in Agents |-> 0]
    /\ tools_executed = {}
    /\ guard_call = NoCall
    /\ semantic_cache = <<>>
    /\ cache_call = NoCacheCall
    /\ clock = 0
    /\ utc_offset = 0
    /\ conversation_history = <<>>
    /\ routing = None

\* Outcomes of orchestrator_node: the classifier names an agent; the
\* classification call raises (error, timeout, output that does not parse);
\* create_orchestrator or get_agent_prompt raises before the try; or the
\* messages hold no user query.
RoutingOutcomes(message) ==
    IF message = <<>>
    THEN {"no_query"}
    ELSE Agents \cup {"raises", "setup_raises"}

\* orchestrator_node with solution_architect as the default
orchestrator_node_default_architect(outcome) ==
    IF outcome \in Agents THEN outcome ELSE "solution_architect"

\* current_agent returned by orchestrator_node
orchestrator_node(outcome) ==
    IF outcome \in Agents THEN outcome ELSE "consultant"

\* orchestrator_node, then the conditional edge out of it
OrchestratorNode ==
    /\ pc = "orchestrator"
    /\ \E outcome \in RoutingOutcomes(user_message) :
          /\ routing' = outcome
          /\ IF outcome = "setup_raises"
             THEN /\ pc' = "error"
                  /\ UNCHANGED <<current_agent, previous_agent>>
             ELSE LET agent == orchestrator_node(outcome)
                  IN  /\ current_agent' = agent
                      /\ previous_agent' = "orchestrator"
                      /\ pc' = orchestrator_should_continue(agent)
    /\ UNCHANGED <<user_message, messages, handoff_history, agent_contexts,
                   handoff_requested, handoff_target, handoff_reason,
                   handoff_context_summary, live_instance_permission_granted,
                   agent_step_counts, model_calls, tools_executed,
                   guard_call, semantic_cache, cache_call, clock, utc_offset, conversation_history>>

\* a specialist node, then the conditional edge agent_should_continue; what
\* the edge function appends to its argument in place is kept by the graph
\* or lost, the graph state being written from what nodes return
AgentStepWith(agent_name, replies) ==
    /\ pc = agent_name
    /\ \E r \in replies :
          LET res == node(agent_name, State, r)
              s1 == res.st
              d == agent_should_continue(s1)
              nxt == IF d.route \in EdgeTable(agent_name) THEN d.route ELSE "error"
          IN  /\ \E kept \in {s1.messages, d.messages} :
                    Apply([s1 EXCEPT !.messages = kept])
              /\ pc' = nxt
              /\ model_calls' = IF res.invoked
                                THEN [model_calls EXCEPT ![agent_name] = @ + 1]
                                ELSE model_calls
    /\ routing' = None
    /\ UNCHANGED <<user_message, tools_executed, guard_call, semantic_cache,
       cache_call, clock, utc_offset, conversation_history>>

AgentStep(agent_name) == AgentStepWith(agent_name, Replies(agent_name))

ConsultantNode == AgentStep("consultant")

SolutionArchitectNode == AgentStep("solution_architect")

ImplementationNode == AgentStep("implementation")

\* ToolNode(all_tools): one ToolMessage per call of the last message, then
\* route_after_tools
ToolsNode ==
    /\ pc = "tools"
    /\ LET calls == messages[Len(messages)].tool_calls
       IN  /\ messages' = add_messages(messages, [i \in 1..Cardinality(calls) |-> ToolMessage])
           /\ tools_executed' = tools_executed \cup calls
    /\ pc' = route_after_tools(current_agent)
    /\ UNCHANGED <<user_message, current_agent, previous_agent, handoff_history,
                   agent_contexts, handoff_requested, handoff_target,
                   handoff_reason, handoff_context_summary,
                   live_instance_permission_granted, agent_step_counts,
                   model_calls, guard_call, semantic_cache,
                   cache_call, clock, utc_offset, conversation_history, routing>>

Next ==
    \/ OrchestratorNode
    \/ ConsultantNode
    \/ SolutionArchitectNode
    \/ ImplementationNode
    \/ ToolsNode

Spec == Init /\ [][Next]_vars

\* MultiAgentOrchestrator.invoke called again on the same conversation, after
\* the previous call returned or raised: the state is built anew from
\* create_initial_state and the new message alone.
Invoke ==
    /\ pc \in {"end", "error"}
    /\ \E message \in UserInputs :
          /\ user_message' = message
          /\ Apply(create_initial_state(message))
    /\ pc' = "orchestrator"
    /\ model_calls' = [a \in Agents |-> 0]
    /\ tools_executed' = {}
    /\ routing' = None
    /\ UNCHANGED <<guard_call, semantic_cache, cache_call, clock, utc_offset, conversation_history>>

ConversationNext == Next \/ Invoke

SpecConversation == Init /\ [][ConversationNext]_vars

\* ------------------------------------------------------------ guard driver
\* detect_circular_handoff applied to histories of up to MaxHistory records
\* between GuardAgents, as a caller of the function can build them.
GuardAgents == {"consultant", "implementation"}

GuardInit ==
    /\ user_message = <<>>
    /\ pc = "guard"
    /\ InState(create_initial_state(<<>>))
    /\ model_calls = [a \in Agents |-> 0]
    /\ tools_executed = {}
    /\ guard_call = NoCall
    /\ semantic_cache = <<>>
    /\ cache_call = NoCacheCall
    /\ clock = 0
    /\ utc_offset = 0
    /\ conversation_history = <<>>
    /\ routing = None

GuardUnchanged ==
    UNCHANGED <<pc, user_message, messages, current_agent, previous_agent,
                agent_contexts, handoff_requested, handoff_target, handoff_reason,
                handoff_context_summary, live_instance_permission_granted,
                agent_step_counts, model_calls, tools_executed,
                semantic_cache, cache_call, clock, utc_offset, conversation_history, routing>>

\* handoff_history.append(handoff_record)
GuardRecord ==
    /\ pc = "guard"
    /\ Len(handoff_history) < MaxHistory
    /\ \E from_agent \in GuardAgents, to_agent \in GuardAgents :
          handoff_history' = Append(handoff_history, <<from_agent, to_agent>>)
    /\ guard_call' = NoCall
    /\ GuardUnchanged

\* detect_circular_handoff(handoff_history, from_agent, to_agent)
GuardCheck ==
    /\ pc = "guard"
    /\ \E from_agent \in GuardAgents, to_agent \in GuardAgents :
          guard_call' = [called |-> TRUE, from_agent |-> from_agent, to_agent |-> to_agent,
                         result |-> detect_circular_handoff(handoff_history, from_agent,
                                                            to_agent, lookback)]
    /\ UNCHANGED handoff_history
    /\ GuardUnchanged

GuardNext == GuardRecord \/ GuardCheck

SpecGuard == GuardInit /\ [][GuardNext]_vars

\* occurrences of the pair among the last 5 records, counted from the history
Occurrences(from_agent, to_agent) ==
    Cardinality({i \in 1..Len(handoff_history) :
                    /\ i > Len(handoff_history) - 5
                    /\ handoff_history[i] = <<from_agent, to_agent>>})

\* the two most recent records are (to -> from) then (from -> to)
Oscillating(from_agent, to_agent) ==
    /\ Len(handoff_history) >= 2
    /\ handoff_history[Len(handoff_history) - 1] = <<to_agent, from_agent>>
    /\ handoff_history[Len(handoff_history)] = <<from_agent, to_agent>>

\* C1: when the two most recent recorded handoffs are (Y->X) then (X->Y), a
\* request X->Y is rejected as circular, whatever the earlier history.
C1_OscillationRejected ==
    (guard_call.called /\ Oscillating(guard_call.from_agent, guard_call.to_agent))
        => guard_call.result

C1_Witness ==
    /\ guard_call.called
    /\ Len(handoff_history) > 2
    /\ guard_call.from_agent # guard_call.to_agent
    /\ Oscillating(guard_call.from_agent, guard_call.to_agent)
    /\ guard_call.result

\* C2: a request S->T is rejected when the pair (S,T) occurs exactly 2 times
\* among the last 5 recorded handoffs (the request would be its 3rd occurrence).
C2_ThirdOccurrenceRejected ==
    (guard_call.called /\ Occurrences(guard_call.from_agent, guard_call.to_agent) = 2)
        => guard_call.result

\* C3 (as stated): a request S->T is accepted when the pair (S,T) occurs
\* exactly once among the last 5 recorded handoffs.
C3_SecondOccurrenceAccepted ==
    (guard_call.called /\ Occurrences(guard_call.from_agent, guard_call.to_agent) = 1)
        => ~guard_call.result

\* C3 (amended): a request S->T is accepted when the pair (S,T) occurs exactly
\* once among the last 5 recorded handoffs, unless the two most recent records
\* are (T->S) then (S->T), where the oscillation rule rejects it.
C3_SecondOccurrenceAcceptedUnlessOscillating ==
    ( /\ guard_call.called
      /\ Occurrences(guard_call.from_agent, guard_call.to_agent) = 1
      /\ ~Oscillating(guard_call.from_agent, guard_call.to_agent) )
        => ~guard_call.result

C3_Witness ==
    /\ guard_call.called
    /\ Len(handoff_history) > 5
    /\ Occurrences(guard_call.from_agent, guard_call.to_agent) = 1
    /\ ~Oscillating(guard_call.from_agent, guard_call.to_agent)
    /\ ~guard_call.result

\* ------------------------------------------------------ dispatcher claims
LastMessage == messages[Len(messages)]

\* ------------------------------------------------------------ node driver
\* One call of a specialist node on a state a caller hands it: the agent's
\* step count around the limit, its context holding up to MaxItems entries
\* per list, another agent's context empty or filled.
Finding(a) ==
    CASE a = "consultant" -> "consultant finding"
      [] a = "solution_architect" -> "architect finding"
      [] a = "implementation" -> "implementation finding"

Recommendation(a) ==
    CASE a = "consultant" -> "consultant recommendation"
      [] a = "solution_architect" -> "architect recommendation"
      [] a = "implementation" -> "implementation recommendation"

Question(a) ==
    CASE a = "consultant" -> "consultant question"
      [] a = "solution_architect" -> "architect question"
      [] a = "implementation" -> "implementation question"

Repeat(x, n) == [i \in 1..n |-> x]

Contexts(a) ==
    { [EmptyContext EXCEPT !.findings = Repeat(Finding(a), n[1]),
                           !.recommendations = Repeat(Recommendation(a), n[2]),
                           !.open_questions = Repeat(Question(a), n[3])] :
        n \in (0..MaxItems) \X (0..MaxItems) \X (0..MaxItems) }

FullContext(a) ==
    [EmptyContext EXCEPT !.findings = <<Finding(a)>>,
                         !.recommendations = <<Recommendation(a)>>,
                         !.open_questions = <<Question(a)>>]

\* replies whose text holds a finding or a recommendation, or neither
NodeReplies(a) ==
    Replies(a) \cup
    { [NoReply EXCEPT !.findings = <<Finding(a)>>],
      [NoReply EXCEPT !.recommendations = <<Recommendation(a)>>] }

NodeInit ==
    /\ user_message \in UserInputs
    /\ pc \in Agents
    /\ \E n \in (max_steps - 1)..(max_steps + 1), own \in Contexts(pc), filled \in BOOLEAN :
          InState([create_initial_state(user_message) EXCEPT
                      !.current_agent = pc,
                      !.previous_agent = "orchestrator",
                      !.agent_step_counts = [a \in Agents |-> IF a = pc THEN n ELSE 0],
                      !.agent_contexts =
                          [a \in Agents |->
                              IF a = pc THEN own
                              ELSE IF filled THEN FullContext(a) ELSE EmptyContext]])
    /\ model_calls = [a \in Agents |-> 0]
    /\ tools_executed = {}
    /\ guard_call = NoCall
    /\ semantic_cache = <<>>
    /\ cache_call = NoCacheCall
    /\ clock = 0
    /\ utc_offset = 0
    /\ conversation_history = <<>>
    /\ routing = None

\* await consultant_node(state) and the like, merged into the state
NodeCall ==
    /\ pc \in Agents
    /\ \E r \in NodeReplies(pc) :
          LET res == node(pc, State, r)
          IN  /\ Apply(res.st)
              /\ model_calls' = IF res.invoked
                                THEN [model_calls EXCEPT ![pc] = @ + 1]
                                ELSE model_calls
    /\ pc' = "returned"
    /\ UNCHANGED <<user_message, tools_executed, guard_call, semantic_cache,
       cache_call, clock, utc_offset, conversation_history,
                   routing>>

NodeNext == NodeCall

SpecNode == NodeInit /\ [][NodeNext]_vars

ContextItems ==
    UNION {{Finding(a), Recommendation(a), Question(a)} : a \in Agents}

IsContextItem(line) == line \in ContextItems

\* C5: a specialist node called with its step count already at max_steps or
\* above does not call the model; it returns one assistant message without
\* tool calls whose text is not empty and lists exactly the entries of that
\* agent's own context: its findings, then its recommendations, then its
\* open questions.
C5_StepLimitSummary ==
    (pc = "returned" /\ agent_step_counts[current_agent] > max_steps) =>
        /\ model_calls[current_agent] = 0
        /\ LastMessage.type = "ai"
        /\ LastMessage.tool_calls = {}
        /\ LastMessage.content # <<>>
        /\ SelectSeq(LastMessage.content, IsContextItem)
             = agent_contexts[current_agent].findings
               \o agent_contexts[current_agent].recommendations
               \o agent_contexts[current_agent].open_questions

C5_Witness ==
    /\ pc = "returned"
    /\ agent_step_counts[current_agent] = max_steps + 1
    /\ model_calls[current_agent] = 0
    /\ agent_contexts[current_agent].findings # <<>>
    /\ agent_contexts[current_agent].recommendations # <<>>
    /\ agent_contexts[current_agent].open_questions # <<>>
    /\ \E a \in Agents \ {current_agent} : agent_contexts[a].findings # <<>>

RequestsHandoff(m) == m.type = "ai" /\ "request_handoff" \in m.tool_calls

\* The turn so far is: router -> consultant, which asked for implementation;
\* implementation, which asked for consultant; consultant, which asked for
\* implementation again.  (Two consultant steps, one implementation step and
\* three handoff requests right after the user message leave no other order.)
ScenarioCThirdRequest ==
    /\ Len(messages) = 4
    /\ messages[1].type = "human"
    /\ \A i \in 2..4 : RequestsHandoff(messages[i])
    /\ agent_step_counts = [a \in Agents |->
            CASE a = "consultant" -> 2 [] a = "implementation" -> 1 [] OTHER -> 0]
    /\ current_agent = "consultant"
    /\ handoff_target = "implementation"

\* C4: scenario C: from an empty history consultant->implementation and
\* implementation->consultant are accepted and recorded, and the next request
\* consultant->implementation is rejected, so the turn ends there.
C4_ScenarioCThirdRejected ==
    ScenarioCThirdRequest =>
        /\ handoff_history = << <<"consultant", "implementation">>,
                                <<"implementation", "consultant">> >>
        /\ pc = "end"

\* C6: the turn always ends at the terminal state: the dispatcher is never
\* stopped anywhere else, and no specialist calls the model more than
\* max_steps times in a turn.
C6_TurnReachesEnd ==
    /\ (pc = "end" \/ ENABLED Next)
    /\ \A a \in Agents : model_calls[a] <= max_steps

\* C7: whenever a specialist node is about to run, handoff_requested is false
\* and handoff_target is empty.
C7_NoStaleHandoff ==
    pc \in Agents => (~handoff_requested /\ handoff_target = None)

\* C8: the tool node runs check_live_instance only in a turn whose user
\* message contains a confirmation token, and only after the gate has
\* granted permission.
C8_LiveToolNeedsConfirmation ==
    "check_live_instance" \in tools_executed =>
        /\ \E keyword \in confirmation_keywords : contains(lower(user_message), keyword)
        /\ live_instance_permission_granted

C8_Witness ==
    /\ "check_live_instance" \in tools_executed
    /\ pc = "implementation"

\* C9: after the implementation node has answered with the permission
\* request, permission is still not granted and the turn is over (the graph
\* is at END), however the node was entered.
C9_DenialEndsTurn ==
    LastMessage = permission_message =>
        (~live_instance_permission_granted /\ pc = "end")

\* the messages the gate saw when it ran as the last step: the gate_window
\* messages before the one the node appended
SeenByGate == LastN(SubSeq(messages, 1, Len(messages) - 1), gate_window)

\* C10 (as stated): if the user message of the conversation contains an
\* affirmative token the gate grants permission, however many assistant or
\* tool messages follow it: the gate never answers with the permission request.
C10_GrantedWhateverFollows ==
    (\E keyword \in confirmation_keywords : contains(lower(user_message), keyword))
        => LastMessage # permission_message

\* C10 (amended): the gate grants permission whenever a user message that
\* contains an affirmative token (any letter case, substring) is among the
\* last 3 messages of the conversation, messages of every role counted.
C10_GrantedInsideWindow ==
    LastMessage = permission_message =>
        ~\E i \in 1..Len(SeenByGate) :
            /\ SeenByGate[i].type = "human"
            /\ \E keyword \in confirmation_keywords :
                    contains(lower(SeenByGate[i].content), keyword)

\* permission was granted on the first implementation step with two
\* assistant messages between the user's "OK" and the gate
C10_Witness ==
    /\ live_instance_permission_granted
    /\ agent_step_counts["implementation"] = 1
    /\ Len(messages) = 4
    /\ messages[1] = HumanMessage(<<"O", "K">>)
    /\ messages[2].type = "ai" /\ messages[3].type = "ai"

\* C11: once live_instance_permission_granted is true it stays true in every
\* later state of the conversation, the start of every later turn included.
C11_PermissionMonotone ==
    [][live_instance_permission_granted => live_instance_permission_granted']_vars

\* ------------------------------------------------ single agent (agent.py)
\* ServiceNowAgent: one "agent" node, the conditional edge _should_continue
\* and a tool node.  Contents are sequences of characters.
MaxMessages == 5

SystemMessage(content) == [type |-> "system", content |-> content, tool_calls |-> {}]

\* "Test" (the prompt of the unit tests) and an excerpt of self.system_prompt,
\* which quotes the confirmation words: 'Yes'
SystemPrompts == { <<"T","e","s","t">>, <<"'","Y","e","s","'">> }

\* texts of an assistant reply without tool calls: "check?" and "connect?"
\* (the question the prompt tells the model to ask)
AssistantTexts == { <<"c","h","e","c","k","?">>, <<"c","o","n","n","e","c","t","?">> }

SingleTools == {"consult_public_docs", "check_live_instance"}

SingleReplies ==
    {AIMessage(<<>>, {t}) : t \in SingleTools}
        \cup {AIMessage(c, {}) : c \in AssistantTexts}

single_permission_message ==
    HumanMessage(<<"I need your explicit permission before connecting to your live ServiceNow instance.">>)

\* ServiceNowAgent._should_continue: the route, or the messages of the dict
\* it returns in place of a route
should_continue(ms) ==
    IF ms = <<>>
    THEN [route |-> "end", messages |-> <<>>]
    ELSE LET last_message == ms[Len(ms)]
             user_confirmed_single == \E i \in 1..Len(ms) : has_keyword(ms[i].content)
         IN  IF last_message.tool_calls # {}
             THEN IF "check_live_instance" \in last_message.tool_calls
                     /\ ~user_confirmed_single
                  THEN [route |-> None, messages |-> <<single_permission_message>>]
                  ELSE [route |-> "tools", messages |-> <<>>]
             ELSE [route |-> "end", messages |-> <<>>]

SingleInit ==
    /\ user_message = <<>>
    /\ pc = "invoke"
    /\ \E prompt \in SystemPrompts :
          InState([create_initial_state(<<>>) EXCEPT !.messages = <<SystemMessage(prompt)>>])
    /\ model_calls = [a \in Agents |-> 0]
    /\ tools_executed = {}
    /\ guard_call = NoCall
    /\ semantic_cache = <<>>
    /\ cache_call = NoCacheCall
    /\ clock = 0
    /\ utc_offset = 0
    /\ conversation_history = <<>>
    /\ routing = None

SingleUnchanged ==
    UNCHANGED <<current_agent, previous_agent, handoff_history, agent_contexts,
                handoff_requested, handoff_target, handoff_reason,
                handoff_context_summary, live_instance_permission_granted,
                agent_step_counts, model_calls, guard_call,
                semantic_cache, cache_call, clock, utc_offset, conversation_history, routing>>

\* ServiceNowAgent.invoke: state["messages"].append(HumanMessage(message))
SingleInvoke ==
    /\ pc \in {"invoke", "end"}
    /\ Len(messages) < MaxMessages
    /\ \E message \in UserInputs :
          /\ user_message' = message
          /\ messages' = Append(messages, HumanMessage(message))
    /\ pc' = "agent"
    /\ UNCHANGED tools_executed
    /\ SingleUnchanged

\* the agent node (_call_model), then the conditional edge _should_continue;
\* a dict is no key of the edge table, the graph raises on it
SingleCallModel ==
    /\ pc = "agent"
    /\ Len(messages) < MaxMessages
    /\ \E response \in SingleReplies :
          LET ms == Append(messages, response)
              d == should_continue(ms)
          IN  /\ messages' = ms
              /\ pc' = IF d.messages # <<>> THEN "permission_request" ELSE d.route
    /\ UNCHANGED <<user_message, tools_executed>>
    /\ SingleUnchanged

\* ToolNode, then the edge tools -> agent
SingleToolsNode ==
    /\ pc = "tools"
    /\ Len(messages) < MaxMessages
    /\ messages' = Append(messages, ToolMessage)
    /\ tools_executed' = tools_executed \cup LastMessage.tool_calls
    /\ pc' = "agent"
    /\ UNCHANGED user_message
    /\ SingleUnchanged

SingleNext == SingleInvoke \/ SingleCallModel \/ SingleToolsNode

SpecSingle == SingleInit /\ [][SingleNext]_vars

\* C12: a reply that calls check_live_instance is routed to "tools" only if
\* a user message of the conversation contains a confirmation keyword;
\* otherwise the permission request is returned, whatever the system prompt
\* and the assistant messages contain.
C12_SingleGuardNeedsUserConfirmation ==
    "check_live_instance" \in LastMessage.tool_calls =>
        IF \E i \in 1..Len(messages) :
                messages[i].type = "human" /\ has_keyword(messages[i].content)
        THEN pc = "tools"
        ELSE pc = "permission_request"

\* ------------------------------------------- semantic cache (semantic_cache.py)
\* Query texts are sequences of characters.
\* keywords of live instance analysis (not cacheable)
live_instance_keywords ==
    { <<"c","h","e","c","k"," ","m","y">>,
      <<"m","y"," ","i","n","s","t","a","n","c","e">>,
      <<"m","y"," ","s","y","s","t","e","m">>,
      <<"c","u","r","r","e","n","t">>,
      <<"r","e","c","e","n","t">>,
      <<"w","h","a","t"," ","i","s"," ","t","h","e">>,
      <<"s","h","o","w"," ","m","e"," ","t","h","e">>,
      <<"g","e","t"," ","t","h","e">>,
      <<"f","e","t","c","h"," ","t","h","e">>,
      <<"e","r","r","o","r"," ","l","o","g">>,
      <<"r","e","c","e","n","t"," ","c","h","a","n","g","e","s">>,
      <<"c","u","r","r","e","n","t"," ","v","a","l","u","e">>,
      <<"l","i","v","e"," ","d","a","t","a">>,
      <<"c","h","e","c","k"," ","t","h","e">>,
      <<"w","h","a","t"," ","a","r","e"," ","t","h","e">>,
      <<"l","i","s","t"," ","t","h","e">>,
      <<"d","i","s","p","l","a","y"," ","t","h","e">>,
      <<"s","c","h","e","m","a">>,
      <<"t","a","b","l","e"," ","s","t","r","u","c","t","u","r","e">>,
      <<"s","y","s","l","o","g">>,
      <<"s","y","s","_","u","p","d","a","t","e","_","x","m","l">>,
      <<"c","o","n","n","e","c","t"," ","t","o">>,
      <<"l","i","v","e"," ","i","n","s","t","a","n","c","e">>,
      <<"a","c","t","u","a","l"," ","c","o","n","f","i","g","u","r","a","t","i","o","n">> }

\* keywords of how-to questions (cacheable)
how_to_keywords ==
    { <<"h","o","w"," ","t","o">>,
      <<"h","o","w"," ","d","o"," ","i">>,
      <<"h","o","w"," ","c","a","n"," ","i">>,
      <<"w","h","a","t"," ","i","s">>,
      <<"e","x","p","l","a","i","n">>,
      <<"b","e","s","t"," ","p","r","a","c","t","i","c","e">>,
      <<"r","e","c","o","m","m","e","n","d","a","t","i","o","n">>,
      <<"s","h","o","u","l","d"," ","i">>,
      <<"w","h","a","t"," ","a","r","e">>,
      <<"g","u","i","d","e">>,
      <<"t","u","t","o","r","i","a","l">>,
      <<"e","x","a","m","p","l","e">>,
      <<"d","o","c","u","m","e","n","t","a","t","i","o","n">> }

\* words that make a query without any keyword not cacheable
default_words ==
    { <<"m","y">>,
      <<"c","u","r","r","e","n","t">>,
      <<"r","e","c","e","n","t">>,
      <<"n","o","w">>,
      <<"t","o","d","a","y">> }

\* is_query_cacheable with the how-to keywords looked at first
is_query_cacheable_how_to_first(query) ==
    LET query_lower == lower(query)
    IN  IF \E keyword \in how_to_keywords : contains(query_lower, keyword)
        THEN TRUE
        ELSE IF \E keyword \in live_instance_keywords : contains(query_lower, keyword)
        THEN FALSE
        ELSE ~\E word \in default_words : contains(query_lower, word)

is_query_cacheable(query) ==
    LET query_lower == lower(query)
    IN  IF \E keyword \in live_instance_keywords : contains(query_lower, keyword)
        THEN FALSE
        ELSE IF \E keyword \in how_to_keywords : contains(query_lower, keyword)
        THEN TRUE
        ELSE ~\E word \in default_words : contains(query_lower, word)

\* ' '.join(s.split()): the words of s joined by single blanks
RECURSIVE join_split(_, _)
join_split(s, i) ==
    IF i > Len(s)
    THEN <<>>
    ELSE IF s[i] # " "
    THEN <<s[i]>> \o join_split(s, i + 1)
    ELSE IF i > 1 /\ s[i - 1] # " " /\ (\E j \in (i + 1)..Len(s) : s[j] # " ")
    THEN <<" ">> \o join_split(s, i + 1)
    ELSE join_split(s, i + 1)

\* normalisation that keeps the letter case
normalized_case_kept(query) == join_split(query, 1)

\* ' '.join(query.strip().lower().split())
normalized(query) == join_split(lower(query), 1)

\* "how to x"
QHow == <<"h","o","w"," ","t","o"," ","x">>

\* "How  To X: QHow in another letter case and spacing"
QHowU == <<"H","o","w"," "," ","T","o"," ","X">>

\* "how do i x: another wording of QHow"
QSim == <<"h","o","w"," ","d","o"," ","i"," ","x">>

\* "get  the x (two blanks): no keyword, cacheable"
QGet2 == <<"g","e","t"," "," ","t","h","e"," ","x">>

\* "get the x: 'get the' is a live instance keyword"
QGet == <<"g","e","t"," ","t","h","e"," ","x">>

\* "how to x My Instance: a how-to keyword and 'my instance'"
QMy == <<"h","o","w"," ","t","o"," ","x"," ","M","y"," ","I","n","s","t","a","n","c","e">>

\* "explain RECENT changes"
QRecent == <<"e","x","p","l","a","i","n"," ","R","E","C","E","N","T"," ","c","h","a","n","g","e","s">>

Queries == {QHow, QHowU, QSim, QGet2, QGet, QMy, QRecent}

\* is_query_cacheable and the normalised text of every query, computed once
Cacheable == [query \in Queries |-> is_query_cacheable(query)]

Normalized == [query \in Queries |-> normalized(query)]

Users == {"u1", "u2"}

\* texts of an assistant response
Responses == {"r1", "r2"}

MaxRows == 2

\* similarity_threshold=0.75 of the check_cache call, in hundredths
similarity_threshold == 75

Topic(query) ==
    CASE query \in {QHow, QHowU, QSim, QMy} -> "how"
      [] query \in {QGet2, QGet} -> "get"
      [] OTHER -> "recent"

\* cosine_similarity of the embeddings of two texts, in hundredths: the
\* embedding provider puts wordings of one question close to each other.
cosine_similarity(query, cached_query) ==
    IF query = cached_query THEN 100
    ELSE IF Topic(query) # Topic(cached_query) THEN 50
    ELSE IF {query, cached_query} = {QHow, QSim} THEN 95
    ELSE 90

\* ttl_days: int = 15
ttl_days_default == 15

\* hit_count of a row, at most
MaxHits == 2

\* CURRENT_TIMESTAMP, at most
MaxClock == 5

\* timedelta(days=ttl_days), in quarters of a day
timedelta(days) == 4 * days

\* datetime.now(): the local time of the process, without a time zone
datetime_now(utc, offset) == utc + offset

\* A row as store_cache inserts it; expires_at is {} for NULL and {t} for a
\* timestamp; hit_count DEFAULT 0, last_used DEFAULT CURRENT_TIMESTAMP.
Row(user_id, query, response, expires_at, now) ==
    [user_id |-> user_id, query_text |-> query, response_text |-> response,
     hit_count |-> 0, last_used |-> now, expires_at |-> expires_at]

\* expires_at IS NULL OR expires_at > CURRENT_TIMESTAMP
unexpired(row, now) == \A t \in row.expires_at : t > now

Miss == [hit |-> FALSE, similarity |-> 0, response_text |-> None]

\* fetchall that adds the global rows to those of the user
fetchall_with_global(rows, user_id, now) ==
    {i \in 1..Len(rows) : rows[i].user_id \in {user_id, None} /\ \A t \in rows[i].expires_at : t > now}

\* rows check_cache selects: WHERE user_id = ? (user_id IS NULL when the call
\* has no user) AND (expires_at IS NULL OR expires_at > CURRENT_TIMESTAMP)
fetchall(rows, user_id, now) ==
    {i \in 1..Len(rows) : rows[i].user_id = user_id /\ unexpired(rows[i], now)}

\* best_match with the first row of the highest similarity replaced by the
\* first row at or above the threshold
best_match_first_above(rows, query, user_id, now) ==
    LET fetched == fetchall(rows, user_id, now)
        exact == {i \in fetched : Normalized[query] = Normalized[rows[i].query_text]}
        above == {i \in fetched :
                    cosine_similarity(query, rows[i].query_text) >= similarity_threshold}
    IN  IF exact # {}
        THEN CHOOSE i \in exact : \A j \in exact : i <= j
        ELSE IF above # {}
        THEN CHOOSE i \in above : \A j \in above : i <= j
        ELSE 0

\* rowid of best_match after the scan of check_cache, rows scanned in rowid
\* order; 0 when best_match is None
best_match(rows, query, user_id, now) ==
    LET fetched == fetchall(rows, user_id, now)
        exact == {i \in fetched : Normalized[query] = Normalized[rows[i].query_text]}
        similarity(i) == cosine_similarity(query, rows[i].query_text)
        above == {i \in fetched : similarity(i) > 0
                                   /\ similarity(i) >= similarity_threshold}
    IN  IF exact # {}
        THEN CHOOSE i \in exact : \A j \in exact : i <= j
        ELSE IF above # {}
        THEN CHOOSE i \in above : \A j \in above :
                \/ similarity(j) < similarity(i)
                \/ similarity(j) = similarity(i) /\ i <= j
        ELSE 0

\* check_cache(query, user_id, 0.75, model_name, 0): what it returns;
\* model_name and temperature are the same in every call (agent.py:251-252)
check_cache(rows, query, user_id, now) ==
    IF ~Cacheable[query]
    THEN Miss
    ELSE LET i == best_match(rows, query, user_id, now)
         IN  IF i = 0
             THEN Miss
             ELSE [hit |-> TRUE,
                   similarity |->
                       IF Normalized[query] = Normalized[rows[i].query_text]
                       THEN 100
                       ELSE cosine_similarity(query, rows[i].query_text),
                   response_text |-> rows[i].response_text]

\* check_cache: the table it leaves (UPDATE ... SET hit_count = hit_count + 1,
\* last_used = CURRENT_TIMESTAMP WHERE cache_id = ?)
check_cache_update(rows, query, user_id, now) ==
    IF ~Cacheable[query]
    THEN rows
    ELSE LET i == best_match(rows, query, user_id, now)
         IN  IF i = 0
             THEN rows
             ELSE [rows EXCEPT ![i].hit_count = @ + 1, ![i].last_used = now]

\* store_cache(query, response, user_id, model_name, 0, ttl_days=ttl_days):
\* the rows afterwards; expires_at is computed from the local time
store_cache(rows, query, response, user_id, ttl_days, now, offset) ==
    IF ~Cacheable[query]
    THEN rows
    ELSE LET expires_at == IF ttl_days > 0
                           THEN {datetime_now(now, offset) + timedelta(ttl_days)}
                           ELSE {}
         IN  Append(rows, Row(user_id, query, response, expires_at, now))

\* clear_expired_cache: DELETE ... WHERE expires_at IS NOT NULL AND
\* expires_at < CURRENT_TIMESTAMP
clear_expired_cache(rows, now) ==
    SelectSeq(rows, LAMBDA row : ~(\E t \in row.expires_at : t < now))

\* ------------------------------------------------------------ cache driver
\* The functions of semantic_cache.py and the two invoke methods, called in
\* any order on a table of up to MaxRows rows.
CacheInit ==
    /\ user_message = <<>>
    /\ pc = "cache"
    /\ InState(create_initial_state(<<>>))
    /\ model_calls = [a \in Agents |-> 0]
    /\ tools_executed = {}
    /\ guard_call = NoCall
    /\ semantic_cache = <<>>
    /\ cache_call = NoCacheCall
    /\ routing = None
    /\ clock = 0
    /\ utc_offset = 0
    /\ conversation_history = <<>>

CacheUnchanged ==
    UNCHANGED <<pc, user_message, messages, current_agent, previous_agent,
                handoff_history, agent_contexts, handoff_requested,
                handoff_target, handoff_reason, handoff_context_summary,
                live_instance_permission_granted, agent_step_counts,
                model_calls, tools_executed, guard_call, routing, utc_offset>>

CacheCall(op, user_id, query, response, found, cache_failed, raised, repeat) ==
    [op |-> op, user_id |-> user_id, query |-> query, response |-> response,
     hit |-> found.hit, similarity |-> found.similarity,
     response_text |-> found.response_text,
     cache_failed |-> cache_failed, raised |-> raised, repeat |-> repeat]

\* no row has been hit more than MaxHits times
HitsBounded(rows) == \A i \in 1..Len(rows) : rows[i].hit_count <= MaxHits

\* check_cache; get_query_embedding raises when the provider fails
CheckCacheOf(queries, users) ==
    /\ \E query \in queries, user_id \in users, embedding_ok \in BOOLEAN :
          LET failed == Cacheable[query] /\ ~embedding_ok
              found == IF failed THEN Miss
                       ELSE check_cache(semantic_cache, query, user_id, clock)
              rows == IF failed THEN semantic_cache
                      ELSE check_cache_update(semantic_cache, query, user_id, clock)
          IN  /\ HitsBounded(rows)
              /\ semantic_cache' = rows
              /\ cache_call' = CacheCall("check_cache", user_id, query, None, found,
                                         failed, failed, FALSE)
    /\ UNCHANGED <<clock, conversation_history>>
    /\ CacheUnchanged

\* store_cache
StoreCacheOf(queries, users, responses, ttls) ==
    /\ Len(semantic_cache) < MaxRows
    /\ \E query \in queries, user_id \in users, response \in responses,
          ttl_days \in ttls, embedding_ok \in BOOLEAN :
          LET failed == Cacheable[query] /\ ~embedding_ok
              rows == IF failed THEN semantic_cache
                      ELSE store_cache(semantic_cache, query, response, user_id,
                                       ttl_days, clock, utc_offset)
          IN  /\ semantic_cache' = rows
              /\ cache_call' = CacheCall("store_cache", user_id, query, response,
                                         Miss, failed, failed, FALSE)
    /\ UNCHANGED <<clock, conversation_history>>
    /\ CacheUnchanged

CheckCache == CheckCacheOf(Queries, Users)

StoreCache == StoreCacheOf(Queries, Users, Responses, {ttl_days_default})

\* a quarter of a day passes
Tick ==
    /\ clock < MaxClock
    /\ clock' = clock + 1
    /\ cache_call' = NoCacheCall
    /\ UNCHANGED <<semantic_cache, conversation_history>>
    /\ CacheUnchanged

\* clear_expired_cache
ClearExpired ==
    /\ semantic_cache' = clear_expired_cache(semantic_cache, clock)
    /\ cache_call' = [NoCacheCall EXCEPT !.op = "clear_expired_cache"]
    /\ UNCHANGED <<clock, conversation_history>>
    /\ CacheUnchanged

\* what the model (or the graph) gives for a message: a text, no text, or an
\* exception
Answers == Responses \cup {None, "raises"}

\* messages of the invoke calls: a how-to question, another wording of it,
\* and a question about the live instance
InvokeMessages == {QHow, QSim, QMy}

\* this call repeats the previous one: same method, user and message, and
\* the previous call returned a fresh, non-empty answer
Repeats(op, user_id, message) ==
    /\ cache_call.op = op
    /\ cache_call.user_id = user_id
    /\ cache_call.query = message
    /\ ~cache_call.raised
    /\ ~cache_call.hit
    /\ cache_call.response # None

\* messages saved for the conversation, at most
MaxSaved == 6

\* add_message(conversation_id, role, content): the saved roles afterwards
add_message(history, role) == Append(history, role)

\* What an invoke call leaves in the history: the user message, saved before
\* the graph runs, and the assistant message, saved after the graph returned
\* if a response was extracted (None when the call raised before that).
invoke_history(history, assistant_response) ==
    IF assistant_response = None
    THEN add_message(history, "user")
    ELSE add_message(add_message(history, "user"), "assistant")

\* ServiceNowAgent.invoke on a fresh state: _call_model asks check_cache; on a
\* miss the model answers (tool calls in between do not touch the cache) and
\* invoke stores the answer.  No call of semantic_cache.py is inside a try.
AgentInvoke ==
    /\ Len(conversation_history) + 2 <= MaxSaved
    /\ \E message \in InvokeMessages, user_id \in Users, answer \in Answers,
          failure \in {"none", "lookup", "store"} :
          LET cacheable == Cacheable[message]
              repeat == Repeats("agent_invoke", user_id, message)
              lookup_failed == cacheable /\ failure = "lookup"
              cached_response == check_cache(semantic_cache, message, user_id, clock)
              hit_rows == check_cache_update(semantic_cache, message, user_id, clock)
              call(response, found, cache_failed, raised) ==
                  CacheCall("agent_invoke", user_id, message, response, found,
                            cache_failed, raised, repeat)
          IN  IF lookup_failed
              THEN /\ cache_call' = call(None, Miss, TRUE, TRUE)
                   /\ UNCHANGED semantic_cache
                   /\ conversation_history' = invoke_history(conversation_history, None)
              ELSE IF cached_response.hit
              THEN /\ HitsBounded(hit_rows)
                   /\ cache_call' = call(cached_response.response_text,
                                         cached_response, FALSE, FALSE)
                   /\ semantic_cache' = hit_rows
                   /\ conversation_history' =
                        invoke_history(conversation_history, cached_response.response_text)
              ELSE IF answer = "raises"
              THEN /\ cache_call' = call(None, Miss, FALSE, TRUE)
                   /\ UNCHANGED semantic_cache
                   /\ conversation_history' = invoke_history(conversation_history, None)
              ELSE IF answer = None
              THEN /\ cache_call' = call(None, Miss, FALSE, FALSE)
                   /\ UNCHANGED semantic_cache
                   /\ conversation_history' = invoke_history(conversation_history, None)
              ELSE IF cacheable /\ failure = "store"
              THEN /\ cache_call' = call(answer, Miss, TRUE, TRUE)
                   /\ UNCHANGED semantic_cache
                   /\ conversation_history' = invoke_history(conversation_history, None)
              ELSE /\ cacheable => Len(semantic_cache) < MaxRows
                   /\ cache_call' = call(answer, Miss, FALSE, FALSE)
                   /\ semantic_cache' = store_cache(semantic_cache, message, answer, user_id,
                                                    ttl_days_default, clock, utc_offset)
                   /\ conversation_history' = invoke_history(conversation_history, answer)
    /\ UNCHANGED clock
    /\ CacheUnchanged

\* MultiAgentOrchestrator.invoke as its caller sees it: the user message is
\* saved, the graph gives the answer or raises, the answer is saved;
\* cached_result = None, "is_cached": False, "similarity": None
MultiAgentInvoke ==
    /\ Len(conversation_history) + 2 <= MaxSaved
    /\ \E message \in InvokeMessages, user_id \in Users, answer \in Answers :
          LET assistant_response == IF answer = "raises" THEN None ELSE answer
          IN  /\ cache_call' = CacheCall("multi_agent_invoke", user_id, message,
                                         assistant_response,
                                         Miss, FALSE, answer = "raises",
                                         Repeats("multi_agent_invoke", user_id, message))
              /\ conversation_history' =
                    invoke_history(conversation_history, assistant_response)
    /\ UNCHANGED <<semantic_cache, clock>>
    /\ CacheUnchanged

CacheNext ==
    \/ CheckCache
    \/ StoreCache

SpecCache == CacheInit /\ [][CacheNext]_vars

\* the two invoke methods called turn after turn on one table
InvokeNext == AgentInvoke \/ MultiAgentInvoke

SpecInvoke == CacheInit /\ [][InvokeNext]_vars

\* ------------------------------------------------------------ cache claims
\* the rows check_cache fetches for the user
Fetched(user_id) == fetchall(semantic_cache, user_id, clock)

\* the two texts are equal up to letter case and blanks
SameText(q1, q2) ==
    q1 = q2 \/ {q1, q2} \in {{QHow, QHowU}, {QGet2, QGet}}

\* fetched rows whose stored text equals the looked-up query up to letter
\* case and blanks
Repeated == {i \in Fetched(cache_call.user_id) :
                SameText(cache_call.query, semantic_cache[i].query_text)}

Looked == cache_call.op = "check_cache" /\ ~cache_call.raised

\* C13 (as stated): a lookup with a query equal, up to letter case and
\* blanks, to the query of a stored row of the same scope that has not
\* expired is a hit with similarity 1.0 and that row's response.
C13_ExactRepeatReturnsStored ==
    Looked => \A i \in Repeated :
        /\ cache_call.hit
        /\ cache_call.similarity = 100
        /\ cache_call.response_text = semantic_cache[i].response_text

\* C13 (amended): when the looked-up query is itself cacheable, the lookup is
\* a hit with similarity 1.0 and the response of the oldest such row, whatever
\* the embedding similarity of the other rows.
C13_ExactRepeatReturnsOldest ==
    (Looked /\ Repeated # {}) =>
        IF is_query_cacheable(cache_call.query)
        THEN /\ cache_call.hit
             /\ cache_call.similarity = 100
             /\ \E i \in Repeated :
                    /\ \A j \in Repeated : i <= j
                    /\ cache_call.response_text = semantic_cache[i].response_text
        ELSE ~cache_call.hit

\* "How  To X" looked up after "how do i x" and "how to x" were stored for
\* the same user with different responses: the first row scores 0.90
C13_Witness ==
    /\ Looked
    /\ cache_call.query = QHowU
    /\ Len(semantic_cache) = 2
    /\ Fetched(cache_call.user_id) = {1, 2}
    /\ semantic_cache[1].query_text = QSim
    /\ semantic_cache[2].query_text = QHow
    /\ semantic_cache[1].response_text # semantic_cache[2].response_text
    /\ cache_call.hit
    /\ cache_call.similarity = 100
    /\ cache_call.response_text = semantic_cache[2].response_text

\* queries that contain "my instance" or "recent changes" in any letter case
LiveDataQueries ==
    {query \in Queries :
        \/ contains(lower(query), <<"m","y"," ","i","n","s","t","a","n","c","e">>)
        \/ contains(lower(query), <<"r","e","c","e","n","t"," ","c","h","a","n","g","e","s">>)}

\* C14: no row of the table has a query text containing "my instance" or
\* "recent changes", a store of such a query inserts nothing and a lookup of
\* such a query is a miss, whatever the table holds.
C14_LiveDataBypassesCache ==
    /\ \A i \in 1..Len(semantic_cache) :
            semantic_cache[i].query_text \notin LiveDataQueries
    /\ (cache_call.op = "check_cache" /\ cache_call.query \in LiveDataQueries)
            => ~cache_call.hit

\* "how to x My Instance" looked up with "how to x" stored for the same user
C14_Witness ==
    /\ Looked
    /\ cache_call.query = QMy
    /\ ~cache_call.hit
    /\ \E i \in Fetched(cache_call.user_id) : semantic_cache[i].query_text = QHow

\* ----------------------------------------------------------- invoke claims
Invoked == cache_call.op \in {"agent_invoke", "multi_agent_invoke"}

\* C15: scenario A: a second invoke by the same user with the same cacheable
\* message, after the first returned a fresh non-empty answer, returns
\* is_cached = true with similarity 1.0.
C15_RepeatIsCached ==
    ( /\ Invoked
      /\ cache_call.repeat
      /\ ~cache_call.raised
      /\ is_query_cacheable(cache_call.query) )
        => (cache_call.hit /\ cache_call.similarity = 100)

\* C18: a failure of the embedding provider or of the cache store during a
\* lookup or a store does not propagate out of invoke.
C18_CacheFailureSwallowed ==
    (Invoked /\ cache_call.cache_failed) => ~cache_call.raised

\* ----------------------------------------------------------- router claims
\* C16 (as stated): whatever fails in orchestrator_node, the router names one
\* of the three specialists, consultant on a failure, and the dispatcher goes
\* on to that node: the turn is not aborted.
C16_RoutingNeverFatal ==
    routing # None =>
        /\ current_agent \in Agents
        /\ pc = current_agent
        /\ routing \notin Agents => current_agent = "consultant"

\* C16 (amended): when the classification call fails (error, timeout, output
\* that does not parse) or there is no user query, current_agent is consultant
\* and the consultant node runs next; otherwise the classifier's agent runs
\* next; only a failure before the call, while the classifier is built or its
\* prompt read, is raised out of the node.
C16_ClassificationFailureDefaults ==
    /\ routing \in {"raises", "no_query"} =>
            (current_agent = "consultant" /\ pc = "consultant")
    /\ routing \in Agents => (current_agent = routing /\ pc = routing)
    /\ routing = "setup_raises" => pc = "error"

\* the classification call raised on the message "OK" and the consultant node
\* is the next to run
C16_Witness ==
    /\ routing = "raises"
    /\ user_message = <<"O", "K">>
    /\ pc = "consultant"
    /\ ENABLED ConsultantNode

\* ---------------------------------------------------------- failure claims
\* C17: after a specialist node has answered with the apology message
\* (agent.ainvoke raised), the turn is over: the graph is at END and no
\* further node runs, however the node was entered.
C17_InvocationFailureEndsTurn ==
    LastMessage = error_message => pc = "end"

\* C19: when the dispatcher has honoured a handoff request and the target
\* node is about to run, one record source -> target has been appended to
\* handoff_history, current_agent is the target, previous_agent the source,
\* and the four pending-handoff fields are cleared.
C19_HandoffRecordedAndCleared ==
    (pc \in Agents /\ RequestsHandoff(LastMessage)) =>
        /\ handoff_history # <<>>
        /\ handoff_history[Len(handoff_history)] = <<previous_agent, pc>>
        /\ current_agent = pc
        /\ ~handoff_requested
        /\ handoff_target = None
        /\ handoff_reason = None
        /\ handoff_context_summary = None

\* ------------------------------------------------------------- edge driver
\* agent_should_continue applied to the state a specialist node left, with
\* the handoff histories handle_handoff would have recorded.
MaxRecorded == 3

RECURSIVE Histories(_)
Histories(n) ==
    IF n = 0
    THEN {<<>>}
    ELSE LET shorter == Histories(n - 1)
         IN  shorter \cup {Append(h, <<x[1], x[2]>>) :
                            h \in shorter, x \in GuardAgents \X GuardAgents}

EdgeInit ==
    /\ user_message = <<>>
    /\ pc = "edge"
    /\ \E history \in Histories(MaxRecorded), agent_name \in GuardAgents,
          target \in GuardAgents \cup {None} :
          InState([create_initial_state(<<>>) EXCEPT
                    !.messages = <<HumanMessage(<<>>),
                                   AIMessage(<<"reply">>,
                                             IF target = None THEN {}
                                             ELSE {"request_handoff"})>>,
                    !.current_agent = agent_name,
                    !.handoff_history = history,
                    !.handoff_requested = (target # None),
                    !.handoff_target = target])
    /\ model_calls = [a \in Agents |-> 0]
    /\ tools_executed = {}
    /\ guard_call = NoCall
    /\ semantic_cache = <<>>
    /\ cache_call = NoCacheCall
    /\ clock = 0
    /\ utc_offset = 0
    /\ conversation_history = <<>>
    /\ routing = None

\* the conditional edge after a specialist node
EdgeCall ==
    /\ pc = "edge"
    /\ LET d == agent_should_continue(State)
       IN  /\ messages' \in {messages, d.messages}
           /\ pc' = IF d.route \in EdgeTable(current_agent) THEN d.route ELSE "error"
    /\ UNCHANGED <<user_message, current_agent, previous_agent, handoff_history,
                   agent_contexts, handoff_requested, handoff_target,
                   handoff_reason, handoff_context_summary,
                   live_instance_permission_granted, agent_step_counts,
                   model_calls, tools_executed, guard_call, semantic_cache,
                   cache_call, clock, utc_offset, conversation_history, routing>>

EdgeNext == EdgeCall

SpecEdge == EdgeInit /\ [][EdgeNext]_vars

MixedCalls == {"request_handoff", "consult_public_docs"}

MixedReplies(a) ==
    {Raise, NoReply, [NoReply EXCEPT !.tool_calls = {"consult_public_docs"}]} \cup
    { [NoReply EXCEPT !.tool_calls = MixedCalls, !.target = t] : t \in Agents }

MixedInit == Init /\ user_message = <<"O", "K">>

MixedConsultantNode == AgentStepWith("consultant", MixedReplies("consultant"))

MixedSolutionArchitectNode ==
    AgentStepWith("solution_architect", MixedReplies("solution_architect"))

MixedImplementationNode ==
    AgentStepWith("implementation", MixedReplies("implementation"))

MixedNext ==
    \/ OrchestratorNode
    \/ MixedConsultantNode
    \/ MixedSolutionArchitectNode
    \/ MixedImplementationNode
    \/ ToolsNode

SpecMixed == MixedInit /\ [][MixedNext]_vars

\* the message the specialist node that just ran appended (the edge may have
\* put the circular-handoff message after it)
NodeMessage ==
    IF LastMessage = circular_message THEN messages[Len(messages) - 1] ELSE LastMessage

\* C22: when a specialist's reply holds a request_handoff call the pending
\* handoff fields are set and the tool node is not the next node, so none of
\* the reply's calls is run; the tool node runs exactly the calls of a last
\* message that holds tool calls and no request_handoff call; request_handoff
\* is never run by the tool node.
C22_HandoffIntentSkipsTools ==
    [][ /\ (pc \in Agents /\ RequestsHandoff(NodeMessage')) =>
              /\ handoff_requested'
              /\ handoff_target' \in Agents
              /\ handoff_reason' = "reason"
              /\ handoff_context_summary' = "context_summary"
              /\ pc' # "tools"
              /\ tools_executed' = tools_executed
        /\ (pc = "tools") =>
              /\ LastMessage.tool_calls # {}
              /\ ~RequestsHandoff(LastMessage)
              /\ ~handoff_requested
              /\ tools_executed' = tools_executed \cup LastMessage.tool_calls
        /\ "request_handoff" \notin tools_executed' ]_vars

\* after a tool result, a reply with request_handoff and consult_public_docs
\* sent the turn to the target with nothing more run
C22_Witness ==
    /\ LastMessage.tool_calls = MixedCalls
    /\ Len(messages) >= 3
    /\ messages[Len(messages) - 1].type = "tool"
    /\ handoff_requested
    /\ pc = handoff_target
    /\ pc # current_agent
    /\ tools_executed = {"consult_public_docs"}

\* C23: the tool node is entered only from the specialist that is then the
\* current agent, and the node after the tool node is that same specialist,
\* whichever of the three it is and whatever handoffs came before.
C23_ToolsReturnToSameSpecialist ==
    [][ /\ (pc \in Agents /\ pc' = "tools") => current_agent' = pc
        /\ (pc = "tools") => (pc' = current_agent /\ current_agent' = current_agent) ]_vars

\* the consultant handed the turn to the solution architect, whose tool call
\* has run, and the solution architect is the next node
C23_Witness ==
    /\ pc = "solution_architect"
    /\ LastMessage.type = "tool"
    /\ Len(messages) = 4
    /\ RequestsHandoff(messages[2])
    /\ messages[3].tool_calls = {"consult_public_docs"}
    /\ model_calls = [a \in Agents |->
            CASE a = "consultant" -> 1 [] a = "solution_architect" -> 1 [] OTHER -> 0]

\* C24: on an accepted handoff the message list the target receives is the
\* first user message, the most recent five messages without the assistant
\* messages that hold only tool calls, and one system-level summary note as
\* its last element.  Stated on the step from the departing specialist to the
\* target: the list the target is about to read ends with a system message.
C24_TargetReceivesCompactedMessages ==
    [][ (pc \in Agents /\ pc' \in Agents) => LastMessage'.type = "system" ]_vars

\* ----------------------------------------------------------- expiry driver
\* store_cache, check_cache and clear_expired_cache for one user while time
\* passes, in a process whose local time is 12 hours behind UTC, equal to
\* UTC, or 12 hours ahead of it.
Offsets == {-2, 0, 2}

ExpiryInit ==
    /\ user_message = <<>>
    /\ pc = "cache"
    /\ InState(create_initial_state(<<>>))
    /\ model_calls = [a \in Agents |-> 0]
    /\ tools_executed = {}
    /\ guard_call = NoCall
    /\ semantic_cache = <<>>
    /\ cache_call = NoCacheCall
    /\ routing = None
    /\ clock = 0
    /\ utc_offset \in Offsets
    /\ conversation_history = <<>>

ExpiryCheck == CheckCacheOf({QHow, QSim}, {"u1"})

ExpiryStore == StoreCacheOf({QHow}, {"u1"}, {"r1"}, {-1, 0, 1})

ExpiryNext ==
    \/ ExpiryCheck
    \/ ExpiryStore
    \/ Tick
    \/ ClearExpired

SpecExpiry == ExpiryInit /\ [][ExpiryNext]_vars

\* ------------------------------------------------------- similarity driver
\* Lookups by a wording that is stored nowhere, and by another question,
\* against rows that hold two other wordings, stored with or without a user,
\* while time passes.
TableScopes == {"u1", None}

StoredQueries == {QHow, QHowU}

LookupQueries == {QSim, QGet2}

SimilarityCheck == CheckCacheOf(LookupQueries, TableScopes)

SimilarityStore == StoreCacheOf(StoredQueries, TableScopes, {"r1"}, {1})

SimilarityNext ==
    \/ SimilarityCheck
    \/ SimilarityStore
    \/ Tick

SpecSimilarity == CacheInit /\ [][SimilarityNext]_vars

\* ------------------------------------------------------ table claims
\* rows of the table before the step that are in the scope of the lookup the
\* step made and have not expired
Candidates ==
    {i \in 1..Len(semantic_cache) :
        /\ semantic_cache[i].user_id = cache_call'.user_id
        /\ \A t \in semantic_cache[i].expires_at : t > clock}

\* the step is a lookup of a cacheable query that returned
LookupStep ==
    /\ cache_call'.op = "check_cache"
    /\ ~cache_call'.raised
    /\ is_query_cacheable(cache_call'.query)

\* C25: a lookup of a cacheable query with no exact text match in scope
\* returns an unexpired row of the scope whose cosine similarity is the
\* highest, if that similarity is at least the threshold, adds 1 to that
\* row's hit_count and sets its last_used, and changes no other row; else it
\* is a miss and changes no row.
C25_SimilarityLookup ==
    [][ (LookupStep /\ \A i \in Candidates :
                          ~SameText(cache_call'.query, semantic_cache[i].query_text)) =>
          LET similarity(i) == cosine_similarity(cache_call'.query,
                                                 semantic_cache[i].query_text)
              highest == {i \in Candidates : \A j \in Candidates :
                                                similarity(j) <= similarity(i)}
          IN  IF \E i \in highest : similarity(i) >= similarity_threshold
              THEN /\ cache_call'.hit
                   /\ \E i \in highest :
                        /\ cache_call'.similarity = similarity(i)
                        /\ cache_call'.response_text = semantic_cache[i].response_text
                        /\ semantic_cache' =
                             [semantic_cache EXCEPT ![i].hit_count = @ + 1,
                                                    ![i].last_used = clock]
              ELSE /\ ~cache_call'.hit
                   /\ semantic_cache' = semantic_cache ]_vars

\* "how do i x" was looked up for u1 after "How  To X" (0.90) and then
\* "how to x" (0.95) were stored for u1: the second row was returned and
\* counted, some time after it was stored
C25_Witness ==
    /\ cache_call.op = "check_cache"
    /\ cache_call.query = QSim
    /\ cache_call.user_id = "u1"
    /\ cache_call.hit
    /\ cache_call.similarity = 95
    /\ Len(semantic_cache) = 2
    /\ \A i \in 1..2 : semantic_cache[i].user_id = "u1"
    /\ semantic_cache[1].query_text = QHowU
    /\ semantic_cache[2].query_text = QHow
    /\ semantic_cache[1].hit_count = 0
    /\ semantic_cache[2].hit_count = 1
    /\ semantic_cache[2].last_used = clock
    /\ semantic_cache[1].last_used < clock

\* expires_at of the row, a reading of the local clock (store_cache took it
\* from datetime.now()), is earlier than what the local clock reads in the
\* state
Passed(row) == \E t \in row.expires_at : t < datetime_now(clock, utc_offset)

\* C26: a row whose expires_at has passed is never the row a lookup returns
\* and is deleted by the next sweep; the sweep deletes no row whose expires_at
\* is absent or not yet passed; a sweep changes the result of no lookup.
C26_ExpiredNeverReturnedSweepExact ==
    [][ /\ (cache_call'.op = "check_cache") =>
              \A i \in 1..Len(semantic_cache) :
                  semantic_cache'[i].hit_count # semantic_cache[i].hit_count
                      => ~Passed(semantic_cache[i])
        /\ (cache_call'.op = "clear_expired_cache") =>
              /\ semantic_cache' = SelectSeq(semantic_cache, LAMBDA row : ~Passed(row))
              /\ \A query \in Queries, user_id \in Users \cup {None} :
                    check_cache(semantic_cache', query, user_id, clock)
                        = check_cache(semantic_cache, query, user_id, clock) ]_vars

\* ---------------------------------------------------------- history claim
\* C27: a call of MultiAgentOrchestrator.invoke in which the graph raised (or
\* was cancelled) leaves the saved history as it was before the call, and no
\* call leaves a user message saved without the assistant reply after it.
C27_NoPartialHistory ==
    [][ (cache_call'.op = "multi_agent_invoke") =>
          /\ cache_call'.raised => conversation_history' = conversation_history
          /\ \A i \in 1..Len(conversation_history') :
                conversation_history'[i] = "user" =>
                    /\ i < Len(conversation_history')
                    /\ conversation_history'[i + 1] = "assistant" ]_vars

\* --------------------------------------------------------- handoff protocol
\* filter_messages_for_handoff(messages), keep_tool_calls=False
filter_messages_for_handoff(ms) ==
    IF ms = <<>>
    THEN <<>>
    ELSE LET humans == {i \in 1..Len(ms) : ms[i].type = "human"}
             first_human == IF humans = {}
                            THEN <<>>
                            ELSE <<ms[CHOOSE i \in humans : \A j \in humans : i <= j]>>
             recent_messages == LastN(ms, 5)
             keep(msg) ==
                /\ first_human # <<msg>>
                /\ \/ msg.type \in {"human", "system"}
                   \/ msg.type = "ai" /\ msg.tool_calls = {}
         IN  first_human \o SelectSeq(recent_messages, keep)

\* create_handoff_summary(state, from_agent): the lines joined by "\n"
create_handoff_summary(st, from_agent) ==
    LET context == st.agent_contexts[from_agent]
    IN  <<"Handoff from", from_agent, "Reason:", st.handoff_reason>>
        \o (IF context.findings # <<>> THEN <<"Findings:">> \o context.findings ELSE <<>>)
        \o (IF context.recommendations # <<>>
            THEN <<"Recommendations:">> \o context.recommendations ELSE <<>>)
        \o (IF context.constraints # <<>>
            THEN <<"Constraints:">> \o context.constraints ELSE <<>>)
        \o (IF context.open_questions # <<>>
            THEN <<"Open Questions:">> \o context.open_questions ELSE <<>>)

\* handle_handoff(state)
handle_handoff(st) ==
    LET from_agent == st.current_agent
        to_agent == st.handoff_target
    IN  [st EXCEPT
            !.messages = filter_messages_for_handoff(@)
                            \o <<SystemMessage(create_handoff_summary(st, from_agent))>>,
            !.handoff_history = Append(@, <<from_agent, to_agent>>),
            !.previous_agent = from_agent,
            !.current_agent = to_agent,
            !.handoff_requested = FALSE,
            !.handoff_target = None,
            !.handoff_reason = None,
            !.handoff_context_summary = None]

\* handoffs recorded in one turn, at most
MaxChain == 8

\* The handoff protocol as handle_handoff would run it: the current agent
\* asks for another agent, the cycle guard is consulted, an accepted request
\* is processed by handle_handoff and a rejected one ends the turn.
ProtocolInit ==
    /\ user_message = <<"O", "K">>
    /\ pc = "protocol"
    /\ \E agent_name \in Agents :
          InState([create_initial_state(user_message) EXCEPT !.current_agent = agent_name])
    /\ model_calls = [a \in Agents |-> 0]
    /\ tools_executed = {}
    /\ guard_call = NoCall
    /\ semantic_cache = <<>>
    /\ cache_call = NoCacheCall
    /\ routing = None
    /\ clock = 0
    /\ utc_offset = 0
    /\ conversation_history = <<>>

ProtocolHandoff ==
    /\ pc = "protocol"
    /\ Len(handoff_history) < MaxChain
    /\ \E to_agent \in Agents \ {current_agent} :
          LET requested == [State EXCEPT
                                !.messages = add_messages(@, <<AIMessage(<<"reply">>,
                                                                {"request_handoff"})>>),
                                !.handoff_requested = TRUE,
                                !.handoff_target = to_agent,
                                !.handoff_reason = "reason",
                                !.handoff_context_summary = "context_summary"]
              rejected == detect_circular_handoff(handoff_history, current_agent,
                                                  to_agent, lookback)
          IN  /\ guard_call' = [called |-> TRUE, from_agent |-> current_agent,
                                to_agent |-> to_agent, result |-> rejected]
              /\ IF rejected
                 THEN /\ Apply(requested)
                      /\ pc' = "end"
                 ELSE /\ Apply(handle_handoff(requested))
                      /\ pc' = "protocol"
    /\ UNCHANGED <<user_message, model_calls, tools_executed, semantic_cache,
                   cache_call, routing, clock, utc_offset, conversation_history>>

ProtocolNext == ProtocolHandoff

SpecProtocol == ProtocolInit /\ [][ProtocolNext]_vars

\* C28: under the handoff protocol (an accepted handoff X->Y appends (X,Y)
\* and makes Y the current agent, only the current agent asks, nobody asks
\* for itself) detect_circular_handoff never returns True: the cycle guard
\* rejects no request.
C28_GuardNeverRejects ==
    /\ guard_call.called => ~guard_call.result
    /\ pc # "end"

\* consultant and implementation have handed the turn to each other six
\* times and the seventh request, the pair for the fourth time, was accepted
C28_Witness ==
    /\ guard_call.called
    /\ ~guard_call.result
    /\ Len(handoff_history) = 7
    /\ \A i \in 1..7 :
          handoff_history[i] = IF i % 2 = 1
                               THEN <<"consultant", "implementation">>
                               ELSE <<"implementation", "consultant">>
    /\ current_agent = "implementation"

\* C29: the route agent_should_continue returns after a specialist node X is
\* always a key of X's edge table (tools, end, or a specialist other than X),
\* for every reply of the model and on the step-limit, permission-denial and
\* exception returns: the step out of a specialist node goes to a node of its
\* edge table.
C29_RouteInEdgeTable ==
    [][ (pc \in Agents) => (pc' \in EdgeTable(pc)) ]_vars

\* ------------------------------------------------------------ scope driver
\* check_cache and store_cache called for two users and without a user
\* (user_id None: the global rows) on one table.
Scopes == Users \cup {None}

ScopeQueries == {QHow, QSim}

ScopeCheck == CheckCacheOf(ScopeQueries, Scopes)

ScopeStore == StoreCacheOf(ScopeQueries, Scopes, Responses, {ttl_days_default})

ScopeNext == ScopeCheck \/ ScopeStore

SpecScope == CacheInit /\ [][ScopeNext]_vars

\* the rows stored with this user_id (None: without a user), in table order
OwnRows(rows, user_id) == SelectSeq(rows, LAMBDA row : row.user_id = user_id)

\* C30: a lookup for user A (or without a user) returns and counts only a
\* row stored with the same user_id, and its result is what the lookup would
\* give on a table holding only the rows of that user_id; a store adds one
\* row of the storing user at most and changes no other row.
C30_ScopesIsolated ==
    [][ /\ (cache_call'.op = "check_cache" /\ ~cache_call'.raised) =>
              LET user_id == cache_call'.user_id
                  query == cache_call'.query
                  alone == check_cache(OwnRows(semantic_cache, user_id), query,
                                       user_id, clock)
              IN  /\ cache_call'.hit = alone.hit
                  /\ cache_call'.similarity = alone.similarity
                  /\ cache_call'.response_text = alone.response_text
                  /\ \A i \in 1..Len(semantic_cache) :
                        semantic_cache[i].user_id # user_id
                            => semantic_cache'[i] = semantic_cache[i]
                  /\ OwnRows(semantic_cache', user_id)
                        = check_cache_update(OwnRows(semantic_cache, user_id), query,
                                             user_id, clock)
        /\ (cache_call'.op = "store_cache") =>
              /\ \A i \in 1..Len(semantic_cache) : semantic_cache'[i] = semantic_cache[i]
              /\ \A i \in (Len(semantic_cache) + 1)..Len(semantic_cache') :
                    semantic_cache'[i].user_id = cache_call'.user_id ]_vars

\* "how to x" was looked up for u1 on a table whose first row is a global
\* "how to x" and whose second row is u1's "how do i x": u1's row was
\* returned at 0.95 and counted, the global exact match was not
C30_Witness ==
    /\ cache_call.op = "check_cache"
    /\ cache_call.user_id = "u1"
    /\ cache_call.query = QHow
    /\ cache_call.hit
    /\ cache_call.similarity = 95
    /\ cache_call.response_text = "r2"
    /\ Len(semantic_cache) = 2
    /\ semantic_cache[1].user_id = None
    /\ semantic_cache[1].query_text = QHow
    /\ semantic_cache[1].response_text = "r1"
    /\ semantic_cache[1].hit_count = 0
    /\ semantic_cache[2].user_id = "u1"
    /\ semantic_cache[2].query_text = QSim
    /\ semantic_cache[2].response_text = "r2"
    /\ semantic_cache[2].hit_count = 1

====
